---- MODULE Spec2Model ----
(***************************************************************************)
(* Model of demo/extract_shopify_products.py: the Shopify product export.  *)
(*                                                                         *)
(* Three specifications share this module:                                 *)
(*   Spec        one run of the program (main, or a direct call of         *)
(*               get_all_shopify_products), step by step;                  *)
(*   SpecClean   clean_description applied to bounded input texts;         *)
(*   SpecConvert convert_shopify_product_to_schema_product applied to      *)
(*               bounded product records.                                  *)
(*                                                                         *)
(* Python values are tagged records: None, S(text), L(list), I(int).       *)
(* A text is a sequence of lexical tokens (see Alphabet); the regular      *)
(* expressions of the program are matched over those tokens.               *)
(***************************************************************************)
EXTENDS Integers, Sequences, FiniteSets, TLC

VARIABLES
    \* ---- one run of the program (Spec) ----
    pc,                     \* position of the run
    entry,                  \* "main" (script run) or "lib" (direct call)
    SHOP_URL,               \* module global read from the environment
    SHOPIFY_ACCESS_TOKEN,   \* module global read from the environment
    shop_url,               \* argument of get_all_shopify_products
    access_token,           \* argument of get_all_shopify_products
    session,                \* local variable session of get_all_shopify_products
    active,                 \* is a session active on shopify.ShopifyResource
    activateCalls,          \* calls of ShopifyResource.activate_session
    clearCalls,             \* calls of ShopifyResource.clear_session
    findCalls,              \* calls of shopify.Product.find
    fetchOutcome,           \* how the try block ended
    retval,                 \* value returned by get_all_shopify_products
    products,               \* local variable products of main
    file0,                  \* content of OUTPUT_FILE before the run
    file,                   \* content of OUTPUT_FILE
    fileOpens,              \* calls of open(OUTPUT_FILE, 'w')
    idx,                    \* index of the next product of the write loop
    errlog,                 \* product ids of the "Error processing product" log lines
    successCount,           \* count of the "Successfully exported" log line
    exitStatus,             \* process exit status
    \* ---- clean_description (SpecClean) ----
    cpc, html, cleaned, recleaned,
    \* ---- convert_shopify_product_to_schema_product (SpecConvert) ----
    vpc, vproduct, vresult

mainVars == <<pc, entry, SHOP_URL, SHOPIFY_ACCESS_TOKEN, shop_url, access_token,
              session, active, activateCalls, clearCalls, findCalls,
              fetchOutcome, retval, products, file0, file, fileOpens, idx,
              errlog, successCount, exitStatus>>
cleanVars == <<cpc, html, cleaned, recleaned>>
convVars == <<vpc, vproduct, vresult>>
vars == <<mainVars, cleanVars, convVars>>

(***************************************************************************)
(* Bounds.                                                                 *)
(***************************************************************************)
MaxLen == 4          \* tokens of an input text of clean_description
MaxProducts == 2     \* products returned by one fetch

(***************************************************************************)
(* Python values.                                                          *)
(***************************************************************************)
None == [none |-> TRUE]
Unset == [unset |-> TRUE]
Missing == [missing |-> TRUE]
S(t) == [str |-> t]
L(t) == [list |-> t]
I(n) == [int |-> n]

\* Python truthiness of None, a str, a list or an int.
Truthy(v) == /\ v # None
             /\ v # S(<<>>)
             /\ v # L(<<>>)
             /\ v # I(0)

(***************************************************************************)
(* Texts: the tokens a description is made of.                             *)
(***************************************************************************)
EMO == "<em>"
DTXT == "This is a demonstration store. You can purchase products like this from"
ANCH == "<a href=\"https://www.purefixcycles.com\" target=\"_blank\">Pure Fix Cycles</a>"
EMC == "</em>"
CO == "<!--"
DSD == "DEMO_STORE_DISCLAIMER"
CC == "-->"
DIVO == "<div class=\"demo-store-disclaimer\">"
DIVC == "</div>"
PO == "<p>"
PC == "</p>"
WS == " "
X == "x"

Alphabet == {EMO, DTXT, ANCH, EMC, CO, DSD, CC, DIVO, DIVC, PO, PC, WS, X}

(***************************************************************************)
(* Regular expressions over tokens.  A pattern is either literals          *)
(* separated by \s* ("lits") or an opening literal, .*? and a closing      *)
(* literal ("span").                                                       *)
(***************************************************************************)
DEMO_STORE_DISCLAIMER_PATTERNS ==
    << [kind |-> "lits", lits |-> <<EMO, DTXT, ANCH, EMC>>],
       [kind |-> "lits", lits |-> <<CO, DSD, CC>>],
       [kind |-> "span", lits |-> <<DIVO, DIVC>>] >>

EMPTY_PARAGRAPH_PATTERN == [kind |-> "lits", lits |-> <<PO, PC>>]

\* \s* is greedy: the first position at or after i that holds no whitespace.
RECURSIVE SkipWs(_, _)
SkipWs(s, i) ==
    IF i <= Len(s) /\ s[i] = WS THEN SkipWs(s, i + 1) ELSE i

\* End (exclusive) of the match of lit1 \s* lit2 \s* ... at position i, 0 if none.
RECURSIVE MatchLits(_, _, _)
MatchLits(s, i, lits) ==
    IF i > Len(s) \/ s[i] # Head(lits) THEN 0
    ELSE IF Len(lits) = 1 THEN i + 1
    ELSE MatchLits(s, SkipWs(s, i + 1), Tail(lits))

\* First position at or after i that holds tok, 0 if none (the non-greedy .*?).
RECURSIVE FirstAt(_, _, _)
FirstAt(s, i, tok) ==
    IF i > Len(s) THEN 0
    ELSE IF s[i] = tok THEN i
    ELSE FirstAt(s, i + 1, tok)

\* End (exclusive) of the match of open .*? close at position i, 0 if none.
MatchSpan(s, i, lits) ==
    IF i > Len(s) \/ s[i] # lits[1] THEN 0
    ELSE LET j == FirstAt(s, i + 1, lits[2])
         IN IF j = 0 THEN 0 ELSE j + 1

MatchEnd(pat, s, i) ==
    IF pat.kind = "lits" THEN MatchLits(s, i, pat.lits)
    ELSE MatchSpan(s, i, pat.lits)

\* re.sub(pattern, "", s): one left-to-right pass over s, every leftmost
\* non-overlapping match removed, the scan resuming after the match.
RECURSIVE SubFrom(_, _, _)
SubFrom(pat, s, i) ==
    IF i > Len(s) THEN <<>>
    ELSE LET e == MatchEnd(pat, s, i)
         IN IF e # 0 THEN SubFrom(pat, s, e)
            ELSE <<s[i]>> \o SubFrom(pat, s, i + 1)

re_sub(pat, s) == SubFrom(pat, s, 1)

\* The for loop over DEMO_STORE_DISCLAIMER_PATTERNS, from pattern k on.
RECURSIVE ApplyPatterns(_, _)
ApplyPatterns(s, k) ==
    IF k > Len(DEMO_STORE_DISCLAIMER_PATTERNS) THEN s
    ELSE ApplyPatterns(re_sub(DEMO_STORE_DISCLAIMER_PATTERNS[k], s), k + 1)

RECURSIVE LStrip(_)
LStrip(s) == IF s # <<>> /\ Head(s) = WS THEN LStrip(Tail(s)) ELSE s

RECURSIVE RStrip(_)
RStrip(s) ==
    IF s # <<>> /\ s[Len(s)] = WS THEN RStrip(SubSeq(s, 1, Len(s) - 1)) ELSE s

strip(s) == RStrip(LStrip(s))

clean_description(html_content) ==
    IF ~Truthy(html_content) THEN S(<<>>)
    ELSE S(strip(re_sub(EMPTY_PARAGRAPH_PATTERN,
                        ApplyPatterns(html_content.str, 1))))

\* Does pattern pat match somewhere in s.
Occurs(pat, s) == \E i \in 1..Len(s) : MatchEnd(pat, s, i) # 0

(***************************************************************************)
(* SpecClean: clean_description on every text of at most MaxLen tokens,    *)
(* and on None.                                                            *)
(***************************************************************************)
CleanIdle == /\ cpc = "off" /\ html = None /\ cleaned = Unset /\ recleaned = Unset

InitClean == /\ cpc = "input"
             /\ html \in {None, S(<<>>)}
             /\ cleaned = Unset
             /\ recleaned = Unset

\* The caller extends the text by one token.
AppendToken ==
    /\ cpc = "input"
    /\ html # None
    /\ Len(html.str) < MaxLen
    /\ \E t \in Alphabet : html' = S(Append(html.str, t))
    /\ UNCHANGED <<cpc, cleaned, recleaned>>

\* cleaned = clean_description(html)
CleanOnce ==
    /\ cpc = "input"
    /\ cleaned' = clean_description(html)
    /\ cpc' = "cleaned"
    /\ UNCHANGED <<html, recleaned>>

\* recleaned = clean_description(cleaned)
CleanAgain ==
    /\ cpc = "cleaned"
    /\ recleaned' = clean_description(cleaned)
    /\ cpc' = "recleaned"
    /\ UNCHANGED <<html, cleaned>>

(***************************************************************************)
(* Vendor records.  An attribute the record does not carry is Missing;     *)
(* reading it raises AttributeError.                                       *)
(***************************************************************************)
MaxImages == 2       \* images of one product
MaxVariants == 1     \* variants of one product

HOST == "example.myshopify.com"
URL == "https://cdn.example/img.png"
DigitStr == <<"1", "2", "3">>

RECURSIVE SeqsUpTo(_, _)
SeqsUpTo(D, n) ==
    IF n = 0 THEN {<<>>}
    ELSE LET r == SeqsUpTo(D, n - 1)
         IN r \cup {Append(q, d) : q \in {q \in r : Len(q) = n - 1}, d \in D}

ImageDomain == {[src |-> None], [src |-> S(<<URL>>)]}

VariantDomain ==
    { [id |-> I(1), title |-> S(<<X>>), price |-> S(<<"9.99">>), sku |-> S(<<X>>),
       inventory_quantity |-> I(3)],
      [id |-> I(2), title |-> S(<<X>>), price |-> S(<<"9.99">>), sku |-> None,
       inventory_quantity |-> Missing],
      [id |-> I(3), title |-> Missing, price |-> S(<<"9.99">>), sku |-> S(<<>>),
       inventory_quantity |-> I(0)] }

ProductDomain ==
    [ id : {I(1), I(2)},
      title : {None, S(<<>>), S(<<X>>)},
      handle : {S(<<X>>), Missing},
      body_html : {None, S(<<>>), S(<<PO, WS, PC, X, CO, DSD, CC>>)},
      product_type : {None, S(<<X>>)},
      vendor : {None, S(<<>>), S(<<X>>)},
      tags : {None, S(<<X>>)},
      published_at : {None, S(<<X>>)},
      updated_at : {None, S(<<X>>)},
      images : {None} \cup {L(q) : q \in SeqsUpTo(ImageDomain, MaxImages)},
      variants : {None} \cup {L(q) : q \in SeqsUpTo(VariantDomain, MaxVariants)} ]

\* str(v) and the {v} of an f-string.
str(v) ==
    IF v = None THEN S(<<"None">>)
    ELSE IF "int" \in DOMAIN v THEN S(<<DigitStr[v.int]>>)
    ELSE v

\* urljoin(f"https://{shop}", f"/products/{handle}")
urljoin(shop, handle) ==
    S(<<"https://">> \o str(shop).str \o <<"/products/">> \o str(handle).str)

\* getattr(obj, name, default)
getattr(obj, name, default) == IF obj[name] = Missing THEN default ELSE obj[name]

\* The attribute values convert_shopify_product_to_schema_product reads.
AttrsRead(product) ==
    {product.handle, product.body_html, product.title, product.id,
     product.vendor, product.product_type, product.tags,
     product.published_at, product.updated_at, product.images,
     product.variants}
    \cup (IF product.images # Missing /\ Truthy(product.images)
          THEN {product.images.list[i].src : i \in 1..Len(product.images.list)}
          ELSE {})
    \cup (IF product.variants # Missing /\ Truthy(product.variants)
          THEN UNION {{v.id, v.title, v.price, v.sku} :
                      v \in {product.variants.list[i] :
                             i \in 1..Len(product.variants.list)}}
          ELSE {})

variant_info(variant) ==
    ("@type" :> S(<<"ProductVariant">>)) @@
    ("id" :> str(variant.id)) @@
    ("title" :> variant.title) @@
    ("price" :> variant.price) @@
    ("sku" :> variant.sku) @@
    ("inventoryQuantity" :> getattr(variant, "inventory_quantity", I(0)))

\* The dict comprehension of the return statement.
DropFalsy(product_info) ==
    [k \in {k \in DOMAIN product_info : Truthy(product_info[k])} |-> product_info[k]]

DropNone(product_info) ==
    [k \in {k \in DOMAIN product_info : product_info[k] # None} |-> product_info[k]]

\* product_info as populated before the return statement.
ProductInfo(product, shop) ==
    LET base == ("@type" :> S(<<"Product">>)) @@
                ("name" :> product.title) @@
                ("description" :> clean_description(product.body_html)) @@
                ("url" :> urljoin(shop, product.handle)) @@
                ("productID" :> str(product.id)) @@
                ("vendor" :> product.vendor) @@
                ("productType" :> product.product_type) @@
                ("tags" :> product.tags) @@
                ("publishedAt" :> product.published_at) @@
                ("updatedAt" :> product.updated_at)
        imgs == IF Truthy(product.images)
                THEN ("primaryImage" :> product.images.list[1].src) @@
                     ("images" :> L([i \in 1..Len(product.images.list) |->
                                        product.images.list[i].src]))
                ELSE <<>>
        vars_ == IF Truthy(product.variants)
                 THEN ("variants" :> L([i \in 1..Len(product.variants.list) |->
                                           variant_info(product.variants.list[i])]))
                 ELSE <<>>
    IN  IF Truthy(product.images)
        THEN IF Truthy(product.variants) THEN base @@ imgs @@ vars_ ELSE base @@ imgs
        ELSE IF Truthy(product.variants) THEN base @@ vars_ ELSE base

convert_shopify_product_to_schema_product(product, shop) ==
    IF Missing \in AttrsRead(product) THEN [raised |-> TRUE]
    ELSE [doc |-> DropNone(ProductInfo(product, shop))]

(***************************************************************************)
(* SpecConvert: the mapper on every product of ProductDomain.              *)
(***************************************************************************)
ConvIdle == /\ vpc = "off" /\ vproduct = None /\ vresult = Unset

InitConvert == /\ vpc = "input"
               /\ vproduct \in ProductDomain
               /\ vresult = Unset

Convert ==
    /\ vpc = "input"
    /\ vresult' = convert_shopify_product_to_schema_product(vproduct, S(<<HOST>>))
    /\ vpc' = "converted"
    /\ UNCHANGED vproduct

(***************************************************************************)
(* Spec: one run of the program.                                           *)
(***************************************************************************)
EnvValues == {None, S(<<>>), S(<<HOST>>)}

ExceptionKinds ==
    {"ForbiddenError", "ResourceNotFound", "Unauthorized", "ServerError", "Exception"}

SessionObject == [session |-> TRUE]

\* Products a store returns; every product of a store carries its id.
ProductSamples ==
    { [id |-> I(1), title |-> S(<<X>>), handle |-> S(<<X>>),
       body_html |-> S(<<PO, PC, X>>), product_type |-> S(<<X>>),
       vendor |-> S(<<X>>), tags |-> S(<<>>), published_at |-> S(<<X>>),
       updated_at |-> S(<<X>>), images |-> L(<<[src |-> S(<<URL>>)]>>),
       variants |-> L(<<[id |-> I(1), title |-> S(<<X>>), price |-> S(<<"9.99">>),
                         sku |-> None, inventory_quantity |-> Missing]>>)],
      [id |-> I(2), title |-> S(<<X>>), handle |-> S(<<X>>),
       body_html |-> None, product_type |-> None,
       vendor |-> None, tags |-> S(<<X>>), published_at |-> None,
       updated_at |-> S(<<X>>), images |-> L(<<>>), variants |-> L(<<>>)],
      [id |-> I(3), title |-> S(<<X>>), handle |-> S(<<X>>),
       body_html |-> S(<<X>>), product_type |-> S(<<X>>),
       vendor |-> S(<<X>>), tags |-> S(<<X>>), published_at |-> S(<<X>>),
       updated_at |-> S(<<X>>), images |-> L(<<>>),
       variants |-> L(<<[id |-> I(3), title |-> Missing, price |-> S(<<"9.99">>),
                         sku |-> S(<<X>>), inventory_quantity |-> I(1)]>>)] }

\* The result sets of Product.find: no product twice.
ProductLists ==
    {q \in SeqsUpTo(ProductSamples, MaxProducts) :
        \A i, j \in 1..Len(q) : i # j => q[i].id # q[j].id}

StaleLine == [stale |-> TRUE]
FileStates == {None, L(<<>>), L(<<StaleLine>>)}

\* json.dumps(product_data, ensure_ascii=False) + '\n'
JsonLine(product_data) == [json |-> product_data]

Prefixes(q) == {SubSeq(q, 1, n) : n \in 0..Len(q)}

getVars == <<session, active, activateCalls, clearCalls, findCalls, fetchOutcome, retval>>
outVars == <<products, file, fileOpens, idx, errlog, successCount, exitStatus>>
cfgVars == <<entry, SHOP_URL, SHOPIFY_ACCESS_TOKEN, file0>>
otherVars == <<cleanVars, convVars>>

InitMain ==
    /\ pc = "start"
    /\ entry \in {"main", "lib"}
    /\ SHOP_URL \in EnvValues
    /\ SHOPIFY_ACCESS_TOKEN \in EnvValues
    /\ shop_url = Unset
    /\ access_token = Unset
    /\ session = None
    /\ active = FALSE
    /\ activateCalls = 0
    /\ clearCalls = 0
    /\ findCalls = 0
    /\ fetchOutcome = "none"
    /\ retval = Unset
    /\ products = Unset
    /\ file0 \in FileStates
    /\ file = file0
    /\ fileOpens = 0
    /\ idx = 0
    /\ errlog = <<>>
    /\ successCount = None
    /\ exitStatus = None

MainIdle ==
    /\ pc = "off" /\ entry = "off" /\ SHOP_URL = None /\ SHOPIFY_ACCESS_TOKEN = None
    /\ shop_url = Unset /\ access_token = Unset /\ session = None /\ active = FALSE
    /\ activateCalls = 0 /\ clearCalls = 0 /\ findCalls = 0 /\ fetchOutcome = "none"
    /\ retval = Unset /\ products = Unset /\ file0 = None /\ file = None
    /\ fileOpens = 0 /\ idx = 0 /\ errlog = <<>> /\ successCount = None
    /\ exitStatus = None

\* main, up to the call of get_all_shopify_products.
MainCheckConfig ==
    /\ pc = "start"
    /\ entry = "main"
    /\ IF ~Truthy(SHOP_URL) \/ ~Truthy(SHOPIFY_ACCESS_TOKEN)
       THEN /\ exitStatus' = I(1)
            /\ pc' = "exited"
            /\ UNCHANGED <<shop_url, access_token>>
       ELSE /\ shop_url' = SHOP_URL
            /\ access_token' = SHOPIFY_ACCESS_TOKEN
            /\ pc' = "get_check"
            /\ UNCHANGED exitStatus
    /\ UNCHANGED <<getVars, products, file, fileOpens, idx, errlog, successCount>>
    /\ UNCHANGED <<cfgVars, otherVars>>

\* Another module calls get_all_shopify_products with arguments of its own.
LibCall ==
    /\ pc = "start"
    /\ entry = "lib"
    /\ \E u \in EnvValues, t \in EnvValues :
          /\ shop_url' = u
          /\ access_token' = t
    /\ pc' = "get_check"
    /\ UNCHANGED <<getVars, outVars, cfgVars, otherVars>>

\* get_all_shopify_products: the check of its arguments.
GetCheckArgsTokenUnchecked ==
    /\ pc = "get_check"
    /\ IF ~Truthy(shop_url)
       THEN /\ retval' = None
            /\ pc' = "returned"
       ELSE /\ pc' = "create_session"
            /\ UNCHANGED retval
    /\ UNCHANGED <<shop_url, access_token, session, active, activateCalls,
                   clearCalls, findCalls, fetchOutcome>>
    /\ UNCHANGED <<outVars, cfgVars, otherVars>>

GetCheckArgs ==
    /\ pc = "get_check"
    /\ IF ~Truthy(shop_url) \/ ~Truthy(access_token)
       THEN /\ retval' = None
            /\ pc' = "returned"
       ELSE /\ pc' = "create_session"
            /\ UNCHANGED retval
    /\ UNCHANGED <<shop_url, access_token, session, active, activateCalls,
                   clearCalls, findCalls, fetchOutcome>>
    /\ UNCHANGED <<outVars, cfgVars, otherVars>>

\* session = shopify.Session(shop_url, api_version, access_token), which
\* returns the session or raises (an unknown API version, a malformed URL).
CreateSession ==
    /\ pc = "create_session"
    /\ \/ /\ session' = SessionObject
          /\ pc' = "activate"
          /\ UNCHANGED fetchOutcome
       \/ /\ fetchOutcome' = "Exception"
          /\ pc' = "except"
          /\ UNCHANGED session
    /\ UNCHANGED <<shop_url, access_token, active, activateCalls, clearCalls,
                   findCalls, retval>>
    /\ UNCHANGED <<outVars, cfgVars, otherVars>>

\* shopify.ShopifyResource.activate_session(session); when it raises, the
\* class attributes it had already set stay set.
ActivateSession ==
    /\ pc = "activate"
    /\ activateCalls' = activateCalls + 1
    /\ \/ /\ active' = TRUE
          /\ pc' = "find"
          /\ UNCHANGED fetchOutcome
       \/ /\ active' \in BOOLEAN
          /\ fetchOutcome' = "Exception"
          /\ pc' = "except"
    /\ UNCHANGED <<shop_url, access_token, session, clearCalls, findCalls, retval>>
    /\ UNCHANGED <<outVars, cfgVars, otherVars>>

\* products = shopify.Product.find(fields=...); return products.  The value
\* to return waits in retval while the finally clause runs.
ProductFind ==
    /\ pc = "find"
    /\ findCalls' = findCalls + 1
    /\ \/ \E ps \in ProductLists :
             /\ retval' = L(ps)
             /\ fetchOutcome' = "ok"
             /\ pc' = "finally"
       \/ \E e \in ExceptionKinds :
             /\ fetchOutcome' = e
             /\ pc' = "except"
             /\ UNCHANGED retval
    /\ UNCHANGED <<shop_url, access_token, session, active, activateCalls, clearCalls>>
    /\ UNCHANGED <<outVars, cfgVars, otherVars>>

\* The except clauses: each logs and falls through to the finally clause.
ExceptHandler ==
    /\ pc = "except"
    /\ fetchOutcome \in ExceptionKinds
    /\ pc' = "finally"
    /\ UNCHANGED <<shop_url, access_token, getVars, outVars, cfgVars, otherVars>>

\* The finally clause, then the return.
FinallyClearOnSuccessOnly ==
    /\ pc = "finally"
    /\ IF session # None /\ fetchOutcome = "ok"
       THEN /\ active' = FALSE
            /\ clearCalls' = clearCalls + 1
       ELSE UNCHANGED <<active, clearCalls>>
    /\ retval' = IF fetchOutcome = "ok" THEN retval ELSE None
    /\ pc' = "returned"
    /\ UNCHANGED <<shop_url, access_token, session, activateCalls, findCalls, fetchOutcome>>
    /\ UNCHANGED <<outVars, cfgVars, otherVars>>

FinallyClearAlways ==
    /\ pc = "finally"
    /\ active' = FALSE
    /\ clearCalls' = clearCalls + 1
    /\ retval' = IF fetchOutcome = "ok" THEN retval ELSE None
    /\ pc' = "returned"
    /\ UNCHANGED <<shop_url, access_token, session, activateCalls, findCalls, fetchOutcome>>
    /\ UNCHANGED <<outVars, cfgVars, otherVars>>

Finally ==
    /\ pc = "finally"
    /\ IF session # None
       THEN /\ active' = FALSE
            /\ clearCalls' = clearCalls + 1
       ELSE UNCHANGED <<active, clearCalls>>
    /\ retval' = IF fetchOutcome = "ok" THEN retval ELSE None
    /\ pc' = "returned"
    /\ UNCHANGED <<shop_url, access_token, session, activateCalls, findCalls, fetchOutcome>>
    /\ UNCHANGED <<outVars, cfgVars, otherVars>>

\* main, from the return of get_all_shopify_products to the with statement.
MainAfterFetchNoneAsEmpty ==
    /\ pc = "returned"
    /\ entry = "main"
    /\ products' = retval
    /\ IF ~Truthy(retval)
       THEN /\ exitStatus' = I(0)
            /\ pc' = "exited"
       ELSE /\ pc' = "open"
            /\ UNCHANGED exitStatus
    /\ UNCHANGED <<file, fileOpens, idx, errlog, successCount>>
    /\ UNCHANGED <<shop_url, access_token, getVars, cfgVars, otherVars>>

MainAfterFetchNoEarlyExit ==
    /\ pc = "returned"
    /\ entry = "main"
    /\ products' = retval
    /\ IF retval = None
       THEN /\ exitStatus' = I(1)
            /\ pc' = "exited"
       ELSE /\ pc' = "open"
            /\ UNCHANGED exitStatus
    /\ UNCHANGED <<file, fileOpens, idx, errlog, successCount>>
    /\ UNCHANGED <<shop_url, access_token, getVars, cfgVars, otherVars>>

MainAfterFetch ==
    /\ pc = "returned"
    /\ entry = "main"
    /\ products' = retval
    /\ IF retval = None
       THEN /\ exitStatus' = I(1)
            /\ pc' = "exited"
       ELSE IF ~Truthy(retval)
       THEN /\ exitStatus' = I(0)
            /\ pc' = "exited"
       ELSE /\ pc' = "open"
            /\ UNCHANGED exitStatus
    /\ UNCHANGED <<file, fileOpens, idx, errlog, successCount>>
    /\ UNCHANGED <<shop_url, access_token, getVars, cfgVars, otherVars>>

\* open(OUTPUT_FILE, 'w', encoding='utf-8'): truncates the file, or raises.
OpenFile ==
    /\ pc = "open"
    /\ fileOpens' = fileOpens + 1
    /\ \/ /\ file' = L(<<>>)
          /\ idx' = 1
          /\ pc' = "loop"
       \/ /\ pc' = "fatal"
          /\ UNCHANGED <<file, idx>>
    /\ UNCHANGED <<products, errlog, successCount, exitStatus>>
    /\ UNCHANGED <<shop_url, access_token, getVars, cfgVars, otherVars>>

\* One iteration of the for loop: map, serialize, write; an exception of
\* either step is logged with product.id.
ProcessProductAbortOnError ==
    /\ pc = "loop"
    /\ idx <= Len(products.list)
    /\ LET product == products.list[idx]
           product_data == convert_shopify_product_to_schema_product(product, SHOP_URL)
       IN  IF "raised" \in DOMAIN product_data
           THEN /\ pc' = "fatal"
                /\ UNCHANGED <<file, errlog, idx>>
           ELSE /\ idx' = idx + 1
                /\ pc' = "loop"
                /\ \/ /\ file' = L(Append(file.list, JsonLine(product_data.doc)))
                      /\ UNCHANGED errlog
                   \/ /\ errlog' = Append(errlog, product.id)
                      /\ UNCHANGED file
    /\ UNCHANGED <<products, fileOpens, successCount, exitStatus>>
    /\ UNCHANGED <<shop_url, access_token, getVars, cfgVars, otherVars>>

ProcessProduct ==
    /\ pc = "loop"
    /\ idx <= Len(products.list)
    /\ LET product == products.list[idx]
           product_data == convert_shopify_product_to_schema_product(product, SHOP_URL)
       IN  IF "raised" \in DOMAIN product_data
           THEN /\ errlog' = Append(errlog, product.id)
                /\ UNCHANGED file
           ELSE \/ /\ file' = L(Append(file.list, JsonLine(product_data.doc)))
                   /\ UNCHANGED errlog
                \/ /\ errlog' = Append(errlog, product.id)
                   /\ UNCHANGED file
    /\ idx' = idx + 1
    /\ pc' = "loop"
    /\ UNCHANGED <<products, fileOpens, successCount, exitStatus>>
    /\ UNCHANGED <<shop_url, access_token, getVars, cfgVars, otherVars>>

\* The end of the with statement (the file is flushed and closed, or that
\* raises and buffered lines are lost), then the success log line and the
\* return of main.
CloseFile ==
    /\ pc = "loop"
    /\ idx > Len(products.list)
    /\ \/ /\ successCount' = I(Len(products.list))
          /\ exitStatus' = I(0)
          /\ pc' = "done"
          /\ UNCHANGED file
       \/ /\ \E q \in Prefixes(file.list) : file' = L(q)
          /\ pc' = "fatal"
          /\ UNCHANGED <<successCount, exitStatus>>
    /\ UNCHANGED <<products, fileOpens, idx, errlog>>
    /\ UNCHANGED <<shop_url, access_token, getVars, cfgVars, otherVars>>

\* except Exception of the with statement: log, sys.exit(1).
Fatal ==
    /\ pc = "fatal"
    /\ exitStatus' = I(1)
    /\ pc' = "exited"
    /\ UNCHANGED <<products, file, fileOpens, idx, errlog, successCount>>
    /\ UNCHANGED <<shop_url, access_token, getVars, cfgVars, otherVars>>

Init == InitMain /\ CleanIdle /\ ConvIdle

Next ==
    \/ MainCheckConfig
    \/ LibCall
    \/ GetCheckArgs
    \/ CreateSession
    \/ ActivateSession
    \/ ProductFind
    \/ ExceptHandler
    \/ Finally
    \/ MainAfterFetch
    \/ OpenFile
    \/ ProcessProduct
    \/ CloseFile
    \/ Fatal

Spec == Init /\ [][Next]_vars

InitC == MainIdle /\ InitClean /\ ConvIdle

NextClean ==
    \/ AppendToken /\ UNCHANGED <<pc, shop_url, access_token, getVars, outVars, cfgVars, convVars>>
    \/ CleanOnce /\ UNCHANGED <<pc, shop_url, access_token, getVars, outVars, cfgVars, convVars>>
    \/ CleanAgain /\ UNCHANGED <<pc, shop_url, access_token, getVars, outVars, cfgVars, convVars>>

SpecClean == InitC /\ [][NextClean]_vars

InitV == MainIdle /\ CleanIdle /\ InitConvert

NextConvert ==
    Convert /\ UNCHANGED <<pc, shop_url, access_token, getVars, outVars, cfgVars, cleanVars>>

SpecConvert == InitV /\ [][NextConvert]_vars

(***************************************************************************)
(* Properties.                                                             *)
(***************************************************************************)
AfterReturn == {"returned", "open", "loop", "fatal", "done"}
FetchFailed == fetchOutcome \in ExceptionKinds
Called == shop_url # Unset
ArgsMissing == ~Truthy(shop_url) \/ ~Truthy(access_token)
EnvMissing == ~Truthy(SHOP_URL) \/ ~Truthy(SHOPIFY_ACCESS_TOKEN)
Terminated == pc \in {"exited", "done"}
NothingTouched ==
    /\ session = None
    /\ active = FALSE
    /\ activateCalls = 0
    /\ findCalls = 0
    /\ fileOpens = 0
    /\ file = file0

\* C1: once get_all_shopify_products has returned, however the fetch step
\* ended, no session is active on ShopifyResource.
C1_SessionClearedOnReturn ==
    (Called /\ (pc \in AfterReturn \/ Terminated)) => active = FALSE

C1_Witness ==
    /\ pc = "returned"
    /\ fetchOutcome = "ServerError"
    /\ activateCalls = 1
    /\ clearCalls = 1
    /\ active = FALSE

\* C2: with the shop URL or the access token missing or empty, no session is
\* created or activated, no product query is issued and no output file is
\* opened; get_all_shopify_products returns None and main exits with status 1.
C2_MissingConfigFailsFast ==
    /\ (entry = "main" /\ EnvMissing) =>
          /\ NothingTouched
          /\ ~Called
          /\ pc \in {"start", "exited"}
          /\ pc = "exited" => exitStatus = I(1)
    /\ (Called /\ ArgsMissing) =>
          /\ NothingTouched
          /\ pc \in {"get_check", "returned"}
          /\ pc = "returned" => retval = None

C2_Witness ==
    /\ entry = "lib"
    /\ pc = "returned"
    /\ shop_url = S(<<HOST>>)
    /\ access_token = S(<<>>)
    /\ retval = None

\* C3: after a failure of the fetch, Product.find is not called again,
\* get_all_shopify_products returns None, and main exits with status 1
\* with the output file never opened.
C3_FetchFailureIsFatal ==
    FetchFailed =>
        /\ findCalls <= 1
        /\ fileOpens = 0
        /\ file = file0
        /\ pc \in {"except", "finally", "returned", "exited"}
        /\ pc \in {"returned", "exited"} => retval = None
        /\ pc = "exited" => exitStatus = I(1)
        /\ entry = "lib" => pc # "exited"

C3_Witness ==
    /\ entry = "main"
    /\ pc = "exited"
    /\ fetchOutcome = "ForbiddenError"
    /\ findCalls = 1
    /\ exitStatus = I(1)
    /\ file0 = L(<<StaleLine>>)

\* C4 as stated: a fetch of zero products ends with the output file opened
\* for overwrite and empty, and exit status 0.
C4_ZeroProductsEmptyFile ==
    (entry = "main" /\ Terminated /\ retval = L(<<>>)) =>
        /\ exitStatus = I(0)
        /\ fileOpens = 1
        /\ file = L(<<>>)

\* C4 as amended: a fetch of zero products ends with exit status 0 and the
\* output file never opened, its former content (or absence) untouched.
C4_ZeroProductsNoFile ==
    (entry = "main" /\ Terminated /\ retval = L(<<>>)) =>
        /\ exitStatus = I(0)
        /\ fileOpens = 0
        /\ file = file0

C4_Witness ==
    /\ entry = "main"
    /\ pc = "exited"
    /\ retval = L(<<>>)
    /\ exitStatus = I(0)
    /\ file = L(<<StaleLine>>)

Logged(product) == \E j \in 1..Len(errlog) : errlog[j] = product.id
Written(product) ==
    \E j \in 1..Len(file.list) : file.list[j].json["productID"] = str(product.id)
MapFails(product) ==
    "raised" \in DOMAIN convert_shopify_product_to_schema_product(product, SHOP_URL)

\* C5: in the write loop a product that fails is logged with its id and
\* contributes no line, every other product handled so far has its line,
\* the loop is left only after the last product, and no per-item failure
\* sets an exit status.
C5_PerItemFailureSkipped ==
    /\ pc \in {"loop", "done"} =>
          /\ Len(file.list) + Len(errlog) = idx - 1
          /\ \A i \in 1..(idx - 1) :
                LET product == products.list[i]
                IN  /\ Logged(product) # Written(product)
                    /\ MapFails(product) => Logged(product)
          /\ exitStatus # I(1)
    /\ pc = "loop" => exitStatus = None
    /\ pc \in {"fatal", "done"} => (idx = 0 \/ idx = Len(products.list) + 1)

C5_Witness ==
    /\ pc = "done"
    /\ Len(products.list) = 2
    /\ MapFails(products.list[1])
    /\ errlog = <<products.list[1].id>>
    /\ Written(products.list[2])
    /\ exitStatus = I(0)

\* C9: the count of the success log line is the number of lines written.
C9_SuccessCountIsLinesWritten ==
    pc = "done" => successCount = I(Len(file.list))

\* C10 as stated: in every run that has ended, activate_session was called
\* exactly once and clear_session exactly once, the release never ahead of
\* the acquisition.
C10_ExactlyOnceEach ==
    /\ clearCalls <= activateCalls
    /\ (Terminated \/ (entry = "lib" /\ pc = "returned")) =>
          /\ activateCalls = 1
          /\ clearCalls = 1

\* C10 as amended: activate_session and clear_session are each called at
\* most once, clear_session never ahead of activate_session, and once
\* get_all_shopify_products has returned both were called equally often:
\* once each when the session object was created, never otherwise.
C10_AtMostOncePaired ==
    /\ activateCalls <= 1
    /\ clearCalls <= activateCalls
    /\ (pc \in AfterReturn \/ Terminated) =>
          /\ clearCalls = activateCalls
          /\ activateCalls = (IF session = None THEN 0 ELSE 1)
    /\ ((entry = "main" /\ EnvMissing) \/ (Called /\ ArgsMissing)) => activateCalls = 0

C10_Witness ==
    /\ pc = "returned"
    /\ fetchOutcome = "Exception"
    /\ findCalls = 0
    /\ activateCalls = 1
    /\ clearCalls = 1

(***************************************************************************)
(* Properties of the mapper (SpecConvert).                                 *)
(***************************************************************************)
AlwaysKeys == {"@type", "description", "url", "productID"}
CopiedKeys ==
    { <<"name", "title">>, <<"vendor", "vendor">>,
      <<"productType", "product_type">>, <<"tags", "tags">>,
      <<"publishedAt", "published_at">>, <<"updatedAt", "updated_at">> }

\* C6: the returned document has no key with value None and has every
\* populated key whose value is not None, empty strings and lists included;
\* without images and variants it has none of primaryImage, images, variants.
C6_NoneDroppedRestKept ==
    (vpc = "converted" /\ "doc" \in DOMAIN vresult) =>
        LET d == vresult.doc
            p == vproduct
        IN  /\ \A k \in DOMAIN d : d[k] # None
            /\ AlwaysKeys \subseteq DOMAIN d
            /\ \A ka \in CopiedKeys :
                  /\ (ka[1] \in DOMAIN d) <=> (p[ka[2]] # None)
                  /\ (ka[1] \in DOMAIN d) => d[ka[1]] = p[ka[2]]
            /\ ("images" \in DOMAIN d) <=> Truthy(p.images)
            /\ ("primaryImage" \in DOMAIN d) <=>
                  (Truthy(p.images) /\ p.images.list[1].src # None)
            /\ ("variants" \in DOMAIN d) <=> Truthy(p.variants)

C6_Witness ==
    /\ vpc = "converted"
    /\ "doc" \in DOMAIN vresult
    /\ vproduct.vendor = None
    /\ vproduct.title = S(<<>>)
    /\ vproduct.images = None
    /\ vproduct.variants = L(<<>>)
    /\ "name" \in DOMAIN vresult.doc
    /\ DOMAIN vresult.doc \cap {"vendor", "primaryImage", "images", "variants"} = {}

(***************************************************************************)
(* Properties of the sanitizer (SpecClean).                                *)
(***************************************************************************)
\* C7: clean_description is idempotent.
C7_CleanIdempotent ==
    cpc = "recleaned" => recleaned = cleaned

\* C8: the output of clean_description holds no disclaimer form and no
\* empty paragraph.
C8_NoDisclaimerLeft ==
    cpc \in {"cleaned", "recleaned"} =>
        /\ \A k \in 1..Len(DEMO_STORE_DISCLAIMER_PATTERNS) :
              ~Occurs(DEMO_STORE_DISCLAIMER_PATTERNS[k], cleaned.str)
        /\ ~Occurs(EMPTY_PARAGRAPH_PATTERN, cleaned.str)

====
